---------------------------- MODULE Spec2Model ----------------------------
(***************************************************************************)
(* Model of the two adapters of langchain-b12:                             *)
(*   - langchain_b12/citations/citations.py : the citation runnable        *)
(*       (create_citation_model, add_citations, validate_citations,        *)
(*        merge_citations, split_into_sentences, contains_context_tags)    *)
(*   - langchain_genai/langchain_google.py  : convert_messages_to_contents *)
(*                                                                         *)
(* Text.  A Python str is a sequence of symbols.  A symbol is one          *)
(* character (" ", "\n", ".", "!", "?", ">", "a", "b", a digit) or one of  *)
(* the three literals the tag pattern matches as units: "<context",        *)
(* "key=" and "</context".  No one-character symbol occurs inside a        *)
(* literal and no literal overlaps another, so on such texts the symbol-   *)
(* level substring test, split and search agree with the character-level   *)
(* ones of the source.                                                     *)
(***************************************************************************)
EXTENDS Integers, Sequences, FiniteSets, TLC

VARIABLES
    citation_model,  \* create_citation_model's argument: "None" or "cite"
    system_prompt,   \* create_citation_model's argument: "None" or "custom"
    pc,              \* where the current invocation of the runnable stands
    messages,        \* the invocation's input: a sequence of messages
    ai_message,      \* the base model's response (add_citations' `message`)
    sentences,       \* add_citations' local `sentences`
    sent_messages,   \* `_messages`, what the citation model was invoked with
    citations,       \* add_citations' local `citations` after validation
    result,          \* what the invocation returned
    steps,           \* the invocation's steps so far, in order
    contents,        \* convert_messages_to_contents: its outcome
    fn,              \* the stand-alone calls of validate/merge: their record
    prev             \* an earlier, completed call kept for comparison

vars == <<citation_model, system_prompt, pc, messages, ai_message, sentences,
          sent_messages, citations, result, steps, contents, fn, prev>>

---------------------------------------------------------------------------
(* Bounds of the model *)

MaxMsgs == 2

MaxCits == 2

MaxIdx == 2

MaxConv == 2

---------------------------------------------------------------------------
(* Python str helpers *)

None == [py |-> "None"]

Whitespace == {" ", "\n"}

Punctuation == {".", "!", "?"}

RECURSIVE LStrip(_)
LStrip(s) ==
    IF s # <<>> /\ Head(s) \in Whitespace THEN LStrip(Tail(s)) ELSE s

RECURSIVE RStrip(_)
RStrip(s) ==
    IF s # <<>> /\ s[Len(s)] \in Whitespace
    THEN RStrip(SubSeq(s, 1, Len(s) - 1))
    ELSE s

\* str.strip()
Strip(s) == RStrip(LStrip(s))

\* needle in hay
Contains(hay, needle) ==
    \E off \in 0..(Len(hay) - Len(needle)) :
        \A i \in 1..Len(needle) : hay[off + i] = needle[i]

\* sep.join(parts)
RECURSIVE Join(_, _)
Join(parts, sep) ==
    IF parts = <<>> THEN <<>>
    ELSE IF Len(parts) = 1 THEN parts[1]
    ELSE parts[1] \o sep \o Join(Tail(parts), sep)

\* str(n) for n >= 0
RECURSIVE Str(_)
Str(n) ==
    LET d == <<"0", "1", "2", "3", "4", "5", "6", "7", "8", "9">>[(n % 10) + 1]
    IN  IF n < 10 THEN <<d>> ELSE Str(n \div 10) \o <<d>>

\* s.rjust(width)
RECURSIVE RJust(_, _)
RJust(s, width) == IF Len(s) >= width THEN s ELSE RJust(<<" ">> \o s, width)

---------------------------------------------------------------------------
(* citations.py: the pure functions *)

\* The end of the run of spaces that starts at position i of s.
RECURSIVE SpaceRunEnd(_, _)
SpaceRunEnd(s, i) ==
    IF i + 1 <= Len(s) /\ s[i + 1] = " " THEN SpaceRunEnd(s, i + 1) ELSE i

\* re.split(r"(?<=[.!?]) +", s): scan from position i, the current piece
\* having started at position start.
RECURSIVE ReSplit(_, _, _)
ReSplit(s, start, i) ==
    IF i > Len(s) THEN << SubSeq(s, start, Len(s)) >>
    ELSE IF i > 1 /\ s[i] = " " /\ s[i - 1] \in Punctuation
         THEN LET e == SpaceRunEnd(s, i)
              IN  << SubSeq(s, start, i - 1) >> \o ReSplit(s, e + 1, e + 1)
         ELSE ReSplit(s, start, i + 1)

split_into_sentences(text) == ReSplit(Strip(text), 1, 1)

\* re.search(r"<context\s+key=[^>]+>.*?</context>", text, re.DOTALL)
contains_context_tags(text) ==
    \E o \in 1..Len(text) :
      /\ text[o] = "<context"
      /\ \E k \in (o + 2)..Len(text) :
           /\ text[k] = "key="
           /\ \A w \in (o + 1)..(k - 1) : text[w] \in Whitespace
           /\ \E g \in (k + 2)..Len(text) :
                /\ text[g] = ">"
                /\ \A v \in (k + 1)..(g - 1) : text[v] # ">"
                /\ \E c \in (g + 1)..(Len(text) - 1) :
                     text[c] = "</context" /\ text[c + 1] = ">"

\* A faulty inner loop: it leaves the loop at the first citation of the
\* sentence.
RECURSIVE MergeInnerFirstOnly(_, _)
MergeInnerFirstOnly(values, sentence_index) ==
    IF values = <<>> THEN <<>>
    ELSE LET citation == Head(values)
         IN  IF citation.sentence_index = sentence_index
             THEN << [cited_text |-> citation.cited_text, key |-> citation.key] >>
             ELSE MergeInnerFirstOnly(Tail(values), sentence_index)

\* merge_citations: the inner loop over citations.values for one sentence.
RECURSIVE MergeInner(_, _)
MergeInner(values, sentence_index) ==
    IF values = <<>> THEN <<>>
    ELSE LET citation == Head(values)
             rest == MergeInner(Tail(values), sentence_index)
         IN  IF citation.sentence_index = sentence_index
             THEN << [cited_text |-> citation.cited_text, key |-> citation.key] >>
                  \o rest
             ELSE rest

\* merge_citations: the outer loop, from sentence sentence_index (0-based) on.
RECURSIVE MergeOuter(_, _, _)
MergeOuter(sents, values, sentence_index) ==
    IF sentence_index >= Len(sents) THEN <<>>
    ELSE LET _citations == MergeInner(values, sentence_index)
         IN  << [text |-> sents[sentence_index + 1],
                 citations |-> IF _citations = <<>> THEN None
                               ELSE [py |-> "list", items |-> _citations],
                 type |-> "text"] >>
             \o MergeOuter(sents, values, sentence_index + 1)

merge_citations(sents, values) == MergeOuter(sents, values, 0)

\* validate_citations: all_text
AllText(msgs) ==
    Join([i \in 1..Len(SelectSeq(msgs, LAMBDA m : m.content.py = "str")) |->
             SelectSeq(msgs, LAMBDA m : m.content.py = "str")[i].content.text],
         <<"\n">>)

\* A faulty loop: the upper bound of the index test is off by one.
RECURSIVE ValidateLoopOffByOne(_, _, _)
ValidateLoopOffByOne(values, all_text, n_sentences) ==
    IF values = <<>> THEN <<>>
    ELSE LET citation == Head(values)
             rest == ValidateLoopOffByOne(Tail(values), all_text, n_sentences)
         IN  IF citation.sentence_index < 0
                \/ citation.sentence_index > n_sentences
             THEN rest
             ELSE IF ~Contains(all_text, citation.cited_text)
                  THEN rest
                  ELSE <<citation>> \o rest

\* A faulty loop: it collects the kept citations at the front of the list.
RECURSIVE ValidateLoopReversed(_, _, _)
ValidateLoopReversed(values, all_text, n_sentences) ==
    IF values = <<>> THEN <<>>
    ELSE LET citation == Head(values)
             rest == ValidateLoopReversed(Tail(values), all_text, n_sentences)
         IN  IF citation.sentence_index < 0
                \/ citation.sentence_index >= n_sentences
             THEN rest
             ELSE IF ~Contains(all_text, citation.cited_text)
                  THEN rest
                  ELSE rest \o <<citation>>

\* validate_citations: the loop over citations.values
RECURSIVE ValidateLoop(_, _, _)
ValidateLoop(values, all_text, n_sentences) ==
    IF values = <<>> THEN <<>>
    ELSE LET citation == Head(values)
             rest == ValidateLoop(Tail(values), all_text, n_sentences)
         IN  IF citation.sentence_index < 0
                \/ citation.sentence_index >= n_sentences
             THEN rest
             ELSE IF ~Contains(all_text, citation.cited_text)
                  THEN rest
                  ELSE <<citation>> \o rest

validate_citations(values, msgs, sents) ==
    ValidateLoop(values, AllText(msgs), Len(sents))

---------------------------------------------------------------------------
(* langchain_core messages *)

StrContent(text) == [py |-> "str", text |-> text]

ListContent(items) == [py |-> "list", items |-> items]

HumanMessage(content) ==
    [type |-> "human", content |-> content, name |-> "", tool_calls |-> <<>>,
     tool_call_id |-> ""]

AIMessage(content, name, tool_calls) ==
    [type |-> "ai", content |-> content, name |-> name,
     tool_calls |-> tool_calls, tool_call_id |-> ""]

ToolMessage(content, name, tool_call_id) ==
    [type |-> "tool", content |-> content, name |-> name, tool_calls |-> <<>>,
     tool_call_id |-> tool_call_id]

SystemMessage(content) ==
    [type |-> "system", content |-> content, name |-> "", tool_calls |-> <<>>,
     tool_call_id |-> ""]

\* bool(message.content): an empty str and an empty list are falsy
Truthy(content) ==
    IF content.py = "str" THEN content.text # <<>> ELSE content.items # <<>>

---------------------------------------------------------------------------
(* citations.py: the runnable of create_citation_model *)

SYSTEM_PROMPT == <<"SYSTEM_PROMPT">>

\* create_citation_model: citation_model = citation_model or model
CitationModel == IF citation_model = "None" THEN "base" ELSE citation_model

\* create_citation_model: system_prompt = system_prompt or SYSTEM_PROMPT
SystemPrompt == IF system_prompt = "None" THEN SYSTEM_PROMPT ELSE <<system_prompt>>

\* add_citations: numbered_message
NumberedMessage(sents, name) ==
    LET num_width == Len(Str(Len(sents)))
    IN  AIMessage(
            StrContent(Join([i \in 1..Len(sents) |->
                                RJust(Str(i - 1), num_width) \o <<":", " ">>
                                \o sents[i]],
                            <<"\n">>)),
            name, <<>>)

\* add_citations: _messages
PromptMessages(msgs, sents, name) ==
    <<SystemMessage(StrContent(SystemPrompt))>> \o msgs
        \o <<NumberedMessage(sents, name)>>

AssertionError == [py |-> "AssertionError"]

ValueError == [py |-> "ValueError"]

\* A model invoked: `how` is "ainvoke" (model.ainvoke) or "structured"
\* (model.with_structured_output(Citations).ainvoke), `on` the model object.
Call(on, how, arg) == [op |-> "call", on |-> on, how |-> how, arg |-> arg]

\* A value a model returned that is a message.
Message(m) == [py |-> "message", message |-> m]

Return(on, value) == [op |-> "return", on |-> on, value |-> value]

Step(name) == [op |-> name]

\* RunnableCallable.ainvoke -> ainvoke_with_citations up to its first await
Begin(msgs) ==
    /\ pc \in {"idle", "done", "failed"}
    /\ pc' = "await_base"
    /\ messages' = msgs
    /\ ai_message' = None
    /\ sentences' = <<>>
    /\ sent_messages' = <<>>
    /\ citations' = <<>>
    /\ result' = None
    /\ steps' = <<Call("base", "ainvoke", msgs)>>
    /\ UNCHANGED <<citation_model, system_prompt, fn>>

\* A faulty start: the test for context tags is left out.
AddCitationsStartNoTagCheck(message) ==
    IF ~Truthy(message.content)
    THEN /\ pc' = "done"
         /\ result' = message
         /\ steps' = Append(steps, Return("base", Message(message)))
         /\ UNCHANGED <<messages, sentences, sent_messages>>
    ELSE IF message.content.py # "str"
    THEN /\ pc' = "failed"
         /\ result' = AssertionError
         /\ steps' = Append(steps, Return("base", Message(message)))
         /\ UNCHANGED <<messages, sentences, sent_messages>>
    ELSE LET sents == split_into_sentences(message.content.text)
             _messages == PromptMessages(messages, sents, message.name)
         IN  /\ pc' = "await_citation"
             /\ sentences' = sents
             /\ sent_messages' = _messages
             /\ steps' = steps \o <<Return("base", Message(message)), Step("split"),
                                    Call(CitationModel, "structured", _messages)>>
             /\ UNCHANGED <<messages, result>>

\* A faulty start: the prompt is built in the caller's list of messages.
AddCitationsStartInPlace(message) ==
    IF ~Truthy(message.content)
    THEN /\ pc' = "done"
         /\ result' = message
         /\ steps' = Append(steps, Return("base", Message(message)))
         /\ UNCHANGED <<messages, sentences, sent_messages>>
    ELSE IF message.content.py # "str"
    THEN /\ pc' = "failed"
         /\ result' = AssertionError
         /\ steps' = Append(steps, Return("base", Message(message)))
         /\ UNCHANGED <<messages, sentences, sent_messages>>
    ELSE IF ~contains_context_tags(message.content.text)
    THEN /\ pc' = "done"
         /\ result' = message
         /\ steps' = Append(steps, Return("base", Message(message)))
         /\ UNCHANGED <<messages, sentences, sent_messages>>
    ELSE LET sents == split_into_sentences(message.content.text)
             _messages == PromptMessages(messages, sents, message.name)
         IN  /\ pc' = "await_citation"
             /\ sentences' = sents
             /\ sent_messages' = _messages
             /\ messages' = _messages
             /\ steps' = steps \o <<Return("base", Message(message)), Step("split"),
                                    Call(CitationModel, "structured", _messages)>>
             /\ UNCHANGED result

\* add_citations, from its entry to its return or to its await
AddCitationsStart(message) ==
    IF ~Truthy(message.content)
    THEN /\ pc' = "done"
         /\ result' = message
         /\ steps' = Append(steps, Return("base", Message(message)))
         /\ UNCHANGED <<messages, sentences, sent_messages>>
    ELSE IF message.content.py # "str"
    THEN /\ pc' = "failed"
         /\ result' = AssertionError
         /\ steps' = Append(steps, Return("base", Message(message)))
         /\ UNCHANGED <<messages, sentences, sent_messages>>
    ELSE IF ~contains_context_tags(message.content.text)
    THEN /\ pc' = "done"
         /\ result' = message
         /\ steps' = Append(steps, Return("base", Message(message)))
         /\ UNCHANGED <<messages, sentences, sent_messages>>
    ELSE LET sents == split_into_sentences(message.content.text)
             _messages == PromptMessages(messages, sents, message.name)
         IN  /\ pc' = "await_citation"
             /\ sentences' = sents
             /\ sent_messages' = _messages
             /\ steps' = steps \o <<Return("base", Message(message)), Step("split"),
                                    Call(CitationModel, "structured", _messages)>>
             /\ UNCHANGED <<messages, result>>

\* ainvoke_with_citations resumed by the base model's response
BaseReturns(response) ==
    /\ pc = "await_base"
    /\ IF response.py = "message" /\ response.message.type = "ai"
       THEN /\ ai_message' = response.message
            /\ AddCitationsStart(response.message)
       ELSE /\ pc' = "failed"
            /\ result' = AssertionError
            /\ steps' = Append(steps, Return("base", response))
            /\ UNCHANGED <<messages, ai_message, sentences, sent_messages>>
    /\ UNCHANGED <<citation_model, system_prompt, citations, contents, fn, prev>>

\* A faulty resumption: the citations are merged as the model gave them.
CitationReturnsUnvalidated(response) ==
    /\ pc = "await_citation"
    /\ IF response.py = "Citations"
       THEN LET merged == merge_citations(sentences, response.values)
            IN  /\ pc' = "done"
                /\ citations' = response.values
                /\ result' = [ai_message EXCEPT !.content = ListContent(merged)]
                /\ steps' = steps \o <<Return(CitationModel, response),
                                       Step("validate"), Step("merge")>>
       ELSE /\ pc' = "failed"
            /\ result' = AssertionError
            /\ steps' = Append(steps, Return(CitationModel, response))
            /\ UNCHANGED citations
    /\ UNCHANGED <<citation_model, system_prompt, messages, ai_message,
                   sentences, sent_messages, contents, fn, prev>>

\* A faulty resumption: a response that is no Citations value is asked for
\* again.
CitationReturnsRetry(response) ==
    /\ pc = "await_citation"
    /\ IF response.py = "Citations"
       THEN LET valid == validate_citations(response.values, messages, sentences)
                merged == merge_citations(sentences, valid)
            IN  /\ pc' = "done"
                /\ citations' = valid
                /\ result' = [ai_message EXCEPT !.content = ListContent(merged)]
                /\ steps' = steps \o <<Return(CitationModel, response),
                                       Step("validate"), Step("merge")>>
       ELSE /\ pc' = "await_citation"
            /\ result' = result
            /\ steps' = steps \o <<Return(CitationModel, response),
                                   Call(CitationModel, "structured", sent_messages)>>
            /\ UNCHANGED citations
    /\ UNCHANGED <<citation_model, system_prompt, messages, ai_message,
                   sentences, sent_messages, contents, fn, prev>>

\* add_citations resumed by the citation model's response
CitationReturns(response) ==
    /\ pc = "await_citation"
    /\ IF response.py = "Citations"
       THEN LET valid == validate_citations(response.values, messages, sentences)
                merged == merge_citations(sentences, valid)
            IN  /\ pc' = "done"
                /\ citations' = valid
                /\ result' = [ai_message EXCEPT !.content = ListContent(merged)]
                /\ steps' = steps \o <<Return(CitationModel, response),
                                       Step("validate"), Step("merge")>>
       ELSE /\ pc' = "failed"
            /\ result' = AssertionError
            /\ steps' = Append(steps, Return(CitationModel, response))
            /\ UNCHANGED citations
    /\ UNCHANGED <<citation_model, system_prompt, messages, ai_message,
                   sentences, sent_messages, contents, fn, prev>>

---------------------------------------------------------------------------
(* langchain_google.py: convert_messages_to_contents *)

Raise(err) == [py |-> err]

Raised(r) == r.py \in {"ValueError", "AssertionError", "KeyError", "IndexError"}

\* The position of the first sep in s, 0 when there is none.
RECURSIVE Find(_, _, _)
Find(s, sep, i) ==
    IF i > Len(s) THEN 0 ELSE IF s[i] = sep THEN i ELSE Find(s, sep, i + 1)

\* s.split(sep, 1)
SplitOnce(s, sep) ==
    LET i == Find(s, sep, 1)
    IN  IF i = 0 THEN <<s>>
        ELSE <<SubSeq(s, 1, i - 1), SubSeq(s, i + 1, Len(s))>>

\* base64.b64decode on groups of four characters: a character outside the
\* alphabet is discarded, a group that is short of padding is an error.
Base64Groups == {"aGVs", "aGk="}

RECURSIVE b64decode(_)
b64decode(data) ==
    IF data = <<>> THEN [py |-> "bytes", value |-> <<>>]
    ELSE LET rest == b64decode(Tail(data))
         IN  IF Raised(rest) THEN rest
             ELSE IF Head(data) \in Base64Groups
             THEN [rest EXCEPT !.value = <<Head(data)>> \o @]
             ELSE IF Head(data) \in {",", ":", ";"} THEN rest
             ELSE Raise("ValueError")

\* multi_content_to_part: the body of the loop, for one element; the parts
\* it appends (none or one), or the exception it raises.
ContentToParts(content) ==
    IF content.py # "dict" THEN Raise("AssertionError")
    ELSE LET d == content.d
         IN
    IF "type" \notin DOMAIN d THEN Raise("AssertionError")
    ELSE IF d.type = "text"
    THEN IF "text" \notin DOMAIN d THEN Raise("AssertionError")
         ELSE IF d.text # <<>>
              THEN [py |-> "parts", parts |-> <<[text |-> d.text]>>]
              ELSE [py |-> "parts", parts |-> <<>>]
    ELSE IF d.type = "image_url"
    THEN IF "image_url" \notin DOMAIN d THEN Raise("KeyError")
         ELSE IF "url" \notin DOMAIN d.image_url THEN Raise("AssertionError")
         ELSE LET split_url == SplitOnce(d.image_url.url, ",")
              IN  IF Len(split_url) # 2 THEN Raise("ValueError")
                  ELSE LET header == split_url[1]
                           encoded_data == split_url[2]
                           after == SplitOnce(header, ":")
                       IN  IF Len(after) < 2 THEN Raise("IndexError")
                           ELSE LET mime_type == SplitOnce(after[2], ";")[1]
                                    data == b64decode(encoded_data)
                                IN  IF Raised(data) THEN data
                                    ELSE [py |-> "parts",
                                          parts |-> <<[inline_data |->
                                              [data |-> data.value,
                                               mime_type |-> mime_type]]>>]
    ELSE IF d.type = "file"
    THEN IF "uri" \notin DOMAIN d THEN Raise("AssertionError")
         ELSE IF "mime_type" \notin DOMAIN d THEN Raise("KeyError")
         ELSE [py |-> "parts",
               parts |-> <<[file_data |-> [file_uri |-> d.uri,
                                           mime_type |-> d.mime_type]]>>]
    ELSE Raise("ValueError")

RECURSIVE MultiLoop(_, _)
MultiLoop(items, parts) ==
    IF items = <<>> THEN [py |-> "parts", parts |-> parts]
    ELSE LET r == ContentToParts(Head(items))
         IN  IF Raised(r) THEN r
             ELSE MultiLoop(Tail(items), parts \o r.parts)

multi_content_to_part(items) == MultiLoop(items, <<>>)

convert_base_message_to_parts(message) ==
    IF message.content.py = "str"
    THEN IF message.content.text # <<>>
         THEN [py |-> "parts", parts |-> <<[text |-> message.content.text]>>]
         ELSE [py |-> "parts", parts |-> <<>>]
    ELSE IF message.content.py = "list"
    THEN multi_content_to_part(message.content.items)
    ELSE Raise("ValueError")

\* convert_messages_to_contents: the loop over message.tool_calls
RECURSIVE FunctionParts(_, _)
FunctionParts(tool_calls, function_parts) ==
    IF tool_calls = <<>> THEN [py |-> "parts", parts |-> function_parts]
    ELSE LET tool_call == Head(tool_calls)
             tool_id == tool_call.id
         IN  IF tool_id = "" THEN Raise("AssertionError")
             ELSE FunctionParts(Tail(tool_calls),
                      Append(function_parts,
                             [function_call |-> [name |-> tool_call.name,
                                                 args |-> tool_call.args,
                                                 id |-> tool_id]]))

UserContent(parts) == [role |-> "user", parts |-> parts]

ModelContent(parts) == [role |-> "model", parts |-> parts]

FunctionContent(parts) == [role |-> "function", parts |-> parts]

\* convert_messages_to_contents: the body of the loop, for one message; the
\* Content it appends, or the exception it raises.
MessageToContent(message) ==
    IF message.type = "human"
    THEN LET parts == convert_base_message_to_parts(message)
         IN  IF Raised(parts) THEN parts
             ELSE [py |-> "content", content |-> UserContent(parts.parts)]
    ELSE IF message.type = "ai"
    THEN LET text_parts == convert_base_message_to_parts(message)
         IN  IF Raised(text_parts) THEN text_parts
             ELSE LET function_parts == FunctionParts(message.tool_calls, <<>>)
                  IN  IF Raised(function_parts) THEN function_parts
                      ELSE [py |-> "content",
                            content |-> ModelContent(text_parts.parts
                                                     \o function_parts.parts)]
    ELSE IF message.type = "tool"
    THEN IF message.content.py # "str" THEN Raise("AssertionError")
         ELSE IF message.name = "" THEN Raise("AssertionError")
         ELSE [py |-> "content",
               content |-> FunctionContent(
                   <<[function_response |->
                        [id |-> message.tool_call_id,
                         name |-> message.name,
                         response |-> [output |-> message.content.text]]]>>)]
    ELSE Raise("ValueError")

\* A faulty loop: a message that converts to no part is left out.
RECURSIVE ConvertLoopSkipEmpty(_, _)
ConvertLoopSkipEmpty(msgs, acc) ==
    IF msgs = <<>> THEN [py |-> "list", items |-> acc]
    ELSE LET r == MessageToContent(Head(msgs))
         IN  IF Raised(r) THEN r
             ELSE IF r.content.parts = <<>>
                  THEN ConvertLoopSkipEmpty(Tail(msgs), acc)
                  ELSE ConvertLoopSkipEmpty(Tail(msgs), Append(acc, r.content))

\* A faulty loop: on a rejected message it returns what it has converted.
RECURSIVE ConvertLoopPartial(_, _)
ConvertLoopPartial(msgs, acc) ==
    IF msgs = <<>> THEN [py |-> "list", items |-> acc]
    ELSE LET r == MessageToContent(Head(msgs))
         IN  IF Raised(r) THEN [py |-> "list", items |-> acc]
             ELSE ConvertLoopPartial(Tail(msgs), Append(acc, r.content))

RECURSIVE ConvertLoop(_, _)
ConvertLoop(msgs, acc) ==
    IF msgs = <<>> THEN [py |-> "list", items |-> acc]
    ELSE LET r == MessageToContent(Head(msgs))
         IN  IF Raised(r) THEN r
             ELSE ConvertLoop(Tail(msgs), Append(acc, r.content))

convert_messages_to_contents(msgs) == ConvertLoop(msgs, <<>>)

\* One call of convert_messages_to_contents.
ConvertCall(msgs) ==
    /\ contents' = [arg |-> msgs, out |-> convert_messages_to_contents(msgs)]
    /\ UNCHANGED <<citation_model, system_prompt, pc, messages, ai_message,
                   sentences, sent_messages, citations, result, steps, fn>>

---------------------------------------------------------------------------
(* The inputs of the runnable *)

ContextA ==
    <<"<context", " ", "key=", "a", ">", "a", " ", "b", "</context", ">">>

MsgPool ==
    { HumanMessage(StrContent(ContextA)),
      HumanMessage(StrContent(<<"b", "?">>)),
      HumanMessage(ListContent(<<[py |-> "dict",
                                  d |-> [type |-> "text", text |-> <<"a", " ", "b">>]]>>)) }

BoundedSeq(S, n) == UNION { [1..k -> S] : k \in 0..n }

MsgSeqs == BoundedSeq(MsgPool, MaxMsgs)

Answer(content) == Message(AIMessage(content, "bot", <<>>))

BaseResponses ==
    { Answer(StrContent(<<>>)),
      Answer(ListContent(<<>>)),
      Answer(ListContent(<<[py |-> "dict",
                            d |-> [type |-> "text", text |-> <<"a">>]]>>)),
      Answer(StrContent(<<"a", ".", " ", "b", ".">>)),
      Answer(StrContent(ContextA)),
      Answer(StrContent(<<" ", "a", ".", " ", " ">> \o ContextA
                        \o <<"?", " ", "b", "\n">>)),
      Message(HumanMessage(StrContent(ContextA))),
      None }

CitedPool == { <<"a", " ", "b">>, <<"b", "a">> }

CitationPool ==
    [sentence_index : (-1)..MaxIdx, cited_text : CitedPool, key : {"a"}]

CitationResponses ==
    { [py |-> "Citations", values |-> v] : v \in BoundedSeq(CitationPool, MaxCits) }
        \cup { None }

\* The invocation this specification follows, from the idle runnable.
Invoke ==
    /\ pc = "idle"
    /\ \E msgs \in MsgSeqs : Begin(msgs)
    /\ UNCHANGED <<contents, prev>>

BaseModelResponds == \E response \in BaseResponses : BaseReturns(response)

CitationModelResponds ==
    \E response \in CitationResponses : CitationReturns(response)

---------------------------------------------------------------------------
(* The inputs of convert_messages_to_contents *)

Dict(d) == [py |-> "dict", d |-> d]

TextPart == Dict([type |-> "text", text |-> <<"a">>])

ImagePart(url) == Dict([type |-> "image_url", image_url |-> [url |-> url]])

GoodUrl == <<"data", ":", "image/png", ";", "base64", ",", "aGVs", "aGk=">>

UnknownPart == Dict([type |-> "video"])

\* Content lists the converter accepts.
GoodItems ==
    { <<>>,
      <<TextPart>>,
      <<Dict([type |-> "text", text |-> <<>>])>>,
      <<TextPart, ImagePart(GoodUrl)>>,
      <<Dict([type |-> "file", uri |-> "gs://b/f", mime_type |-> "text/plain"])>> }

\* Content lists with an element the converter rejects.
BadItems ==
    { <<[py |-> "str", value |-> <<"a">>]>>,
      <<Dict([text |-> <<"a">>])>>,
      <<Dict([type |-> "text"])>>,
      <<Dict([type |-> "image_url"])>>,
      <<Dict([type |-> "image_url", image_url |-> [detail |-> "low"]])>>,
      <<ImagePart(<<"data", ":", "image/png", ";", "base64">>)>>,
      <<ImagePart(<<"image/png", ",", "aGk=">>)>>,
      <<ImagePart(<<"data", ":", "image/png", ",", "a">>)>>,
      <<Dict([type |-> "file", mime_type |-> "text/plain"])>>,
      <<Dict([type |-> "file", uri |-> "gs://b/f"])>>,
      <<UnknownPart>>,
      <<TextPart, UnknownPart>> }

ToolCall(id) == [name |-> "foo", args |-> "{a: 1}", id |-> id]

ConvPool ==
    { HumanMessage(StrContent(<<"a">>)), HumanMessage(StrContent(<<>>)) }
    \cup { HumanMessage(ListContent(items)) : items \in GoodItems \cup BadItems }
    \cup { AIMessage(StrContent(<<"a">>), "", <<>>),
           AIMessage(StrContent(<<>>), "", <<>>),
           AIMessage(StrContent(<<>>), "", <<ToolCall("1")>>),
           AIMessage(StrContent(<<"a">>), "", <<ToolCall("1"), ToolCall("2")>>),
           AIMessage(StrContent(<<"a">>), "", <<ToolCall("")>>),
           AIMessage(ListContent(<<TextPart>>), "", <<ToolCall("1"), ToolCall("")>>),
           AIMessage(ListContent(<<UnknownPart>>), "", <<ToolCall("")>>),
           AIMessage(ListContent(<<Dict([type |-> "text"])>>), "", <<>>) }
    \cup { ToolMessage(StrContent(<<"a">>), "foo", "1"),
           ToolMessage(StrContent(<<>>), "foo", "1"),
           ToolMessage(StrContent(<<"a">>), "", "1"),
           ToolMessage(ListContent(<<TextPart>>), "foo", "1"),
           ToolMessage(ListContent(<<TextPart>>), "", "1") }
    \cup { SystemMessage(StrContent(<<"a">>)) }

ConvSeqs == BoundedSeq(ConvPool, MaxConv)

\* The call on the argument the initial state holds.
Convert ==
    /\ contents.out = None
    /\ ConvertCall(contents.arg)
    /\ UNCHANGED prev

---------------------------------------------------------------------------
(* validate_citations and merge_citations called on their own: fn holds the *)
(* arguments, then the call made and its result.                            *)

ValidateCall ==
    /\ fn.op = "input"
    /\ fn' = [fn EXCEPT !.op = "validate",
                        !.out = validate_citations(fn.values, fn.messages,
                                                   fn.sentences)]
    /\ UNCHANGED <<citation_model, system_prompt, pc, messages, ai_message,
                   sentences, sent_messages, citations, result, steps,
                   contents, prev>>

\* validate_citations applied to its own result, same messages and sentences
ValidateAgain ==
    /\ fn.op = "validate"
    /\ fn' = [fn EXCEPT !.op = "validate_twice",
                        !.again = validate_citations(fn.out, fn.messages,
                                                     fn.sentences)]
    /\ UNCHANGED <<citation_model, system_prompt, pc, messages, ai_message,
                   sentences, sent_messages, citations, result, steps,
                   contents, prev>>

MergeCall ==
    /\ fn.op = "input"
    /\ fn' = [fn EXCEPT !.op = "merge",
                        !.out = merge_citations(fn.sentences, fn.values)]
    /\ UNCHANGED <<citation_model, system_prompt, pc, messages, ai_message,
                   sentences, sent_messages, citations, result, steps,
                   contents, prev>>

SentenceList == << <<"a", ".">>, <<"b", "?">>, <<"a", " ", "b", "!">>, <<"b">> >>

\* The first n sentences, n up to MaxIdx.
SentenceLists == { SubSeq(SentenceList, 1, n) : n \in 0..MaxIdx }

FnMsgSeqs ==
    { <<>>,
      <<HumanMessage(StrContent(ContextA))>>,
      <<HumanMessage(StrContent(ContextA)),
        HumanMessage(ListContent(<<[py |-> "dict",
                                    d |-> [type |-> "text",
                                           text |-> <<"b", "a">>]]>>)),
        HumanMessage(StrContent(<<"b", "?">>))>>,
      <<HumanMessage(ListContent(<<[py |-> "dict",
                                    d |-> [type |-> "text",
                                           text |-> <<"a", " ", "b">>]]>>))>> }

FnCitationPool ==
    { [sentence_index |-> i, cited_text |-> c[1], key |-> c[2]] :
        i \in (-1)..MaxIdx,
        c \in { << <<"a", " ", "b">>, "a" >>, << <<">", "\n", "b">>, "b" >>,
                << <<"b", "a">>, "a" >>, << <<>>, "b" >> } }

FnInputs ==
    [op : {"input"}, values : BoundedSeq(FnCitationPool, MaxCits),
     messages : FnMsgSeqs, sentences : SentenceLists, out : {<<>>},
     again : {<<>>}]

---------------------------------------------------------------------------
(* Repeated calls: a completed call is kept and compared with later ones *)

Responses(log) ==
    LET returns == SelectSeq(log, LAMBDA e : e.op = "return")
    IN  [i \in 1..Len(returns) |-> returns[i].value]

Completed ==
    [messages |-> steps[1].arg, responses |-> Responses(steps), result |-> result]

RepeatMsgSeqs ==
    { <<>>,
      <<HumanMessage(StrContent(ContextA))>>,
      <<HumanMessage(StrContent(ContextA)), HumanMessage(StrContent(<<"b", "?">>))>> }

RepeatBaseResponses ==
    { Answer(StrContent(<<>>)),
      Answer(StrContent(<<"a", ".", " ", "b", ".">>)),
      Answer(StrContent(ContextA \o <<".", " ", "b", ".">>)),
      None }

RepeatCitationResponses ==
    { [py |-> "Citations", values |-> v] :
        v \in BoundedSeq([sentence_index : {0, 1, 2},
                          cited_text : {<<"a", " ", "b">>, <<"b", "?">>},
                          key : {"a"}], 1) }
        \cup { None }

RepeatConvSeqs ==
    { <<>>,
      <<HumanMessage(StrContent(<<"a">>))>>,
      <<HumanMessage(StrContent(<<"a">>)),
        AIMessage(StrContent(<<>>), "", <<ToolCall("1")>>)>>,
      <<HumanMessage(StrContent(<<"a">>)), SystemMessage(StrContent(<<"a">>))>>,
      <<HumanMessage(ListContent(<<UnknownPart>>))>> }

RepeatInvoke ==
    \E msgs \in RepeatMsgSeqs, keep \in BOOLEAN :
        /\ Begin(msgs)
        /\ prev' = IF keep \/ pc = "idle" THEN prev
                   ELSE [prev EXCEPT !.run = Completed]
        /\ UNCHANGED contents

RepeatBaseResponds ==
    \E response \in RepeatBaseResponses : BaseReturns(response)

RepeatCitationResponds ==
    \E response \in RepeatCitationResponses : CitationReturns(response)

RepeatConvert ==
    \E msgs \in RepeatConvSeqs, keep \in BOOLEAN :
        /\ ConvertCall(msgs)
        /\ prev' = IF keep \/ contents = None THEN prev
                   ELSE [prev EXCEPT !.conv = contents]

Init ==
    /\ citation_model \in {"None", "cite"}
    /\ system_prompt \in {"None", "custom"}
    /\ pc = "idle"
    /\ messages = <<>>
    /\ ai_message = None
    /\ sentences = <<>>
    /\ sent_messages = <<>>
    /\ citations = <<>>
    /\ result = None
    /\ steps = <<>>
    /\ contents = None
    /\ fn = [op |-> "none"]
    /\ prev = [run |-> None, conv |-> None]

\* Nothing invoked yet, the runnable built with its defaults.
Idle ==
    /\ citation_model = "None"
    /\ system_prompt = "None"
    /\ pc = "idle"
    /\ messages = <<>>
    /\ ai_message = None
    /\ sentences = <<>>
    /\ sent_messages = <<>>
    /\ citations = <<>>
    /\ result = None
    /\ steps = <<>>
    /\ prev = [run |-> None, conv |-> None]

InitConvert ==
    /\ Idle
    /\ contents \in [arg : ConvSeqs, out : {None}]
    /\ fn = [op |-> "none"]

InitFn ==
    /\ Idle
    /\ contents = None
    /\ fn \in FnInputs

Next == Invoke \/ BaseModelResponds \/ CitationModelResponds

Spec == Init /\ [][Next]_vars

NextConvert == Convert

SpecConvert == InitConvert /\ [][NextConvert]_vars

NextFn == ValidateCall \/ ValidateAgain \/ MergeCall

SpecFn == InitFn /\ [][NextFn]_vars

NextRepeat ==
    RepeatInvoke \/ RepeatBaseResponds \/ RepeatCitationResponds \/ RepeatConvert

SpecRepeat == Init /\ [][NextRepeat]_vars

---------------------------------------------------------------------------
(* What the properties speak of, stated apart from the code's loops *)

\* The source text: the string contents of the messages, a newline between
\* one and the next.
RECURSIVE SourceText(_)
SourceText(msgs) ==
    IF msgs = <<>> THEN <<>>
    ELSE LET last == msgs[Len(msgs)]
             front == SubSeq(msgs, 1, Len(msgs) - 1)
         IN  IF last.content.py # "str" THEN SourceText(front)
             ELSE IF \A i \in 1..Len(front) : front[i].content.py # "str"
                  THEN last.content.text
                  ELSE SourceText(front) \o <<"\n">> \o last.content.text

\* needle is a literal substring of hay
Occurs(needle, hay) ==
    \E i \in 1..(Len(hay) + 1) : \E j \in (i - 1)..Len(hay) :
        SubSeq(hay, i, j) = needle

InRange(c, sents) == c.sentence_index \in 0..(Len(sents) - 1)

ValidCitation(c, msgs, sents) ==
    InRange(c, sents) /\ Occurs(c.cited_text, SourceText(msgs))

Validated == fn.op \in {"validate", "validate_twice"}

CitationCount(block) ==
    IF block.citations = None THEN 0 ELSE Len(block.citations.items)

RECURSIVE TotalCitations(_)
TotalCitations(blocks) ==
    IF blocks = <<>> THEN 0
    ELSE CitationCount(Head(blocks)) + TotalCitations(Tail(blocks))

---------------------------------------------------------------------------
(* Properties of validate_citations and merge_citations (SpecFn) *)

\* C1: every citation in the result of validate_citations has
\* 0 <= sentence_index < len(sentences) and a cited_text that is a literal
\* substring of the source text (the string contents of the messages joined
\* with newlines); a citation failing either test is not in the result.
C1_ValidatedCitationsAreValid ==
    Validated =>
        /\ \A i \in 1..Len(fn.out) :
               ValidCitation(fn.out[i], fn.messages, fn.sentences)
        /\ \A j \in 1..Len(fn.values) :
               ~ValidCitation(fn.values[j], fn.messages, fn.sentences)
                   => \A i \in 1..Len(fn.out) : fn.out[i] # fn.values[j]

\* One of two citations was dropped, and the one kept cites a text that runs
\* across the newline joining two messages.
C1_Witness ==
    /\ fn.op = "validate"
    /\ Len(fn.values) = 2
    /\ Len(fn.out) = 1
    /\ fn.out[1].cited_text = <<">", "\n", "b">>

\* C10: validate_citations is a filter: its result is the input citations
\* that are valid, each unaltered and in the input order, every valid one
\* kept; applied to its own result it returns that result.
C10_ValidateIsIdempotentFilter ==
    /\ Validated =>
           fn.out = SelectSeq(fn.values,
                        LAMBDA c : ValidCitation(c, fn.messages, fn.sentences))
    /\ fn.op = "validate_twice" => fn.again = fn.out

\* Validation applied twice to two citations of which the first is dropped.
C10_Witness ==
    /\ fn.op = "validate_twice"
    /\ Len(fn.values) = 2
    /\ Len(fn.out) = 1
    /\ fn.out[1] = fn.values[2]
    /\ fn.values[1] # fn.values[2]

\* C9: merge_citations returns len(sentences) blocks, block i with the text
\* of sentence i and with exactly the citations whose sentence_index is i, in
\* input order, cited_text and key unchanged, None when there are none; when
\* every index is in range each citation is in exactly one block.
C9_MergeKeepsEveryCitation ==
    fn.op = "merge" =>
        /\ Len(fn.out) = Len(fn.sentences)
        /\ \A i \in 1..Len(fn.out) :
               LET mine == SelectSeq(fn.values,
                               LAMBDA c : c.sentence_index = i - 1)
               IN  /\ fn.out[i].text = fn.sentences[i]
                   /\ fn.out[i].type = "text"
                   /\ IF mine = <<>> THEN fn.out[i].citations = None
                      ELSE /\ fn.out[i].citations.py = "list"
                           /\ fn.out[i].citations.items =
                                  [k \in 1..Len(mine) |->
                                      [cited_text |-> mine[k].cited_text,
                                       key |-> mine[k].key]]
        /\ (\A j \in 1..Len(fn.values) : InRange(fn.values[j], fn.sentences))
               => TotalCitations(fn.out) = Len(fn.values)

\* Two sentences, both citations on the first: one block holds two
\* citations, the other None.
C9_Witness ==
    /\ fn.op = "merge"
    /\ Len(fn.out) = 2
    /\ CitationCount(fn.out[1]) = 2
    /\ fn.out[1].citations.items[1] # fn.out[1].citations.items[2]
    /\ fn.out[2].citations = None

---------------------------------------------------------------------------
(* Properties of convert_messages_to_contents (SpecConvert) *)

Converted == "out" \in DOMAIN contents /\ contents.out # None

Accepted(m) == m.type \in {"human", "ai", "tool"} /\ ~Raised(MessageToContent(m))

RoleOf(type) ==
    CASE type = "human" -> "user" [] type = "ai" -> "model"
      [] type = "tool" -> "function"

Items(m) == IF m.content.py = "list" THEN m.content.items ELSE <<>>

KnownTypes == {"text", "image_url", "file"}

\* The errors the rejections of a message are said to raise.
ListedErrors(m) ==
    { e \in {"ValueError", "AssertionError"} :
        \/ /\ e = "ValueError"
           /\ \/ m.type \notin {"human", "ai", "tool"}
              \/ \E i \in 1..Len(Items(m)) :
                    /\ Items(m)[i].py = "dict"
                    /\ "type" \in DOMAIN Items(m)[i].d
                    /\ Items(m)[i].d.type \notin KnownTypes
        \/ /\ e = "AssertionError"
           /\ \/ m.type = "ai" /\ \E i \in 1..Len(m.tool_calls) :
                                      m.tool_calls[i].id = ""
              \/ m.type = "tool" /\ (m.name = "" \/ m.content.py # "str")
              \/ \E i \in 1..Len(Items(m)) : Items(m)[i].py # "dict" }

\* A content part of a known type, or a dict without a type, that is
\* rejected for what it lacks: a rejection that is not among the listed ones.
OtherFault(m) ==
    /\ m.type \in {"human", "ai"}
    /\ \E i \in 1..Len(Items(m)) :
          /\ Items(m)[i].py = "dict"
          /\ "type" \in DOMAIN Items(m)[i].d => Items(m)[i].d.type \in KnownTypes
          /\ Raised(ContentToParts(Items(m)[i]))

FirstRejected(msgs) ==
    CHOOSE k \in 1..Len(msgs) :
        ~Accepted(msgs[k]) /\ \A j \in 1..(k - 1) : Accepted(msgs[j])

C8_RejectionFailsTheWholeCall ==
    (Converted /\ \E i \in 1..Len(contents.arg) : ~Accepted(contents.arg[i])) =>
        LET m == contents.arg[FirstRejected(contents.arg)]
        IN  /\ Raised(contents.out)
            /\ contents.out.py # "list"
            /\ (ListedErrors(m) # {} /\ ~OtherFault(m))
                   => contents.out.py \in ListedErrors(m)

\* A message of unknown content-part type after one that converted: the
\* call raised ValueError.
C8_Witness ==
    /\ Converted
    /\ Len(contents.arg) = 2
    /\ Accepted(contents.arg[1])
    /\ contents.arg[2].type = "human"
    /\ ListedErrors(contents.arg[2]) = {"ValueError"}
    /\ contents.out = ValueError

---------------------------------------------------------------------------
(* Properties of the runnable of create_citation_model (Spec) *)

Finished == pc \in {"done", "failed"}

\* The base model has answered with an AIMessage.
Answered == ai_message # None

\* The invocation returned the answer with its content replaced.
Changed == pc = "done" /\ result # ai_message

\* The position of the first step that passes Test, 0 when there is none.
First(log, Test(_)) ==
    IF \E i \in 1..Len(log) : Test(log[i])
    THEN CHOOSE i \in 1..Len(log) :
             Test(log[i]) /\ \A j \in 1..(i - 1) : ~Test(log[j])
    ELSE 0

NumberOf(log, Test(_)) == Cardinality({ i \in 1..Len(log) : Test(log[i]) })

IsCall(e) == e.op = "call"

IsAnswerCall(e) == e.op = "call" /\ e.how = "ainvoke"

IsCitationCall(e) == e.op = "call" /\ e.how = "structured"

IsCallOnBase(e) == e.op = "call" /\ e.on = "base"

IsCallOnCitationModel(e) == e.op = "call" /\ e.on = CitationModel

IsBaseReturn(e) == e.op = "return" /\ e.on = "base"

IsCitationsReturn(e) == e.op = "return" /\ e.value.py = "Citations"

IsSplit(e) == e = Step("split")

IsValidate(e) == e = Step("validate")

IsMerge(e) == e = Step("merge")

InputHasContext ==
    \E i \in 1..Len(messages) :
        /\ messages[i].content.py = "str"
        /\ contains_context_tags(messages[i].content.text)

\* C2: when the input messages hold the contexts as XML tags and the base
\* model returns a non-empty string answer, the returned message's content is
\* a list of blocks, one per sentence of the answer, each with a text, a
\* citations field (list or None) and type "text".
C2_CitesWheneverInputHasContext ==
    (/\ pc = "done"
     /\ InputHasContext
     /\ ai_message.content.py = "str"
     /\ ai_message.content.text # <<>>) =>
        /\ result.content.py = "list"
        /\ Len(result.content.items)
               = Len(split_into_sentences(ai_message.content.text))
        /\ \A i \in 1..Len(result.content.items) :
               /\ result.content.items[i].type = "text"
               /\ result.content.items[i].citations = None
                      \/ result.content.items[i].citations.py = "list"

\* C3: in a run that changes the message the steps are, in this order,
\* split, prompt the citation model, validate, merge; the prompt is the
\* system message, the input messages and the numbered sentences of the
\* split; every citation of a block of the result is one the citation model
\* gave for that sentence and passes validate_citations against the same
\* sentences and input messages.
C3_PipelineOrder ==
    Changed =>
        LET split == First(steps, IsSplit)
            call == First(steps, IsCitationCall)
            back == First(steps, IsCitationsReturn)
            sents == split_into_sentences(ai_message.content.text)
        IN  /\ 0 < split
            /\ split < call
            /\ call < back
            /\ back < First(steps, IsValidate)
            /\ First(steps, IsValidate) < First(steps, IsMerge)
            /\ LET prompt == steps[call].arg
                   numbered == prompt[Len(prompt)]
               IN  /\ Len(prompt) = Len(messages) + 2
                   /\ prompt[1].type = "system"
                   /\ SubSeq(prompt, 2, Len(prompt) - 1) = messages
                   /\ numbered.type = "ai"
                   /\ \A i \in 1..Len(sents) :
                          Contains(numbered.content.text,
                                   Str(i - 1) \o <<":", " ">> \o sents[i])
            /\ Len(result.content.items) = Len(sents)
            /\ \A i \in 1..Len(result.content.items) :
                   \A k \in 1..CitationCount(result.content.items[i]) :
                       LET c == result.content.items[i].citations.items[k]
                           raw == steps[back].value.values
                       IN  \E j \in 1..Len(raw) :
                               /\ raw[j].sentence_index = i - 1
                               /\ raw[j].cited_text = c.cited_text
                               /\ raw[j].key = c.key
                               /\ validate_citations(<<raw[j]>>, messages, sents)
                                      = <<raw[j]>>

\* The citation model gave two citations for an answer of three sentences
\* and one of them reached a block of the result.
C3_Witness ==
    /\ Changed
    /\ Len(sentences) = 3
    /\ Len(steps[First(steps, IsCitationsReturn)].value.values) = 2
    /\ TotalCitations(result.content.items) = 1

\* C4 as stated: an invocation invokes the base model exactly once and the
\* citation model at most once, the latter only after the base model's call
\* has returned.
C4_BaseModelInvokedOnce ==
    Finished =>
        /\ NumberOf(steps, IsCallOnBase) = 1
        /\ NumberOf(steps, IsCallOnCitationModel) <= 1
        /\ First(steps, IsCitationCall) > 0
               => First(steps, IsBaseReturn) < First(steps, IsCitationCall)

\* C4, amended: an invocation makes exactly one answer call (model.ainvoke),
\* on the base model and first of all, and at most one citation call
\* (with_structured_output(Citations).ainvoke), on the citation model and
\* only after the answer call has returned; there is no other call.  The
\* citation model is the base model itself when none was given, and the base
\* model is then invoked twice; given a citation model of its own, it is
\* invoked once.
C4_OneAnswerCallOneCitationCall ==
    pc # "idle" =>
        /\ steps[1] = Call("base", "ainvoke", messages)
        /\ NumberOf(steps, IsAnswerCall) = 1
        /\ NumberOf(steps, IsCitationCall) <= 1
        /\ NumberOf(steps, IsCall) <= 2
        /\ \A i \in 1..Len(steps) :
               IsCitationCall(steps[i]) =>
                   /\ steps[i].on = CitationModel
                   /\ 0 < First(steps, IsBaseReturn)
                   /\ First(steps, IsBaseReturn) < i
        /\ citation_model # "None" => NumberOf(steps, IsCallOnBase) = 1
        /\ (citation_model = "None" /\ Changed)
               => NumberOf(steps, IsCallOnBase) = 2

\* Built without a citation model, the runnable returned a cited answer
\* after two calls, both on the base model.
C4_Witness ==
    /\ Changed
    /\ citation_model = "None"
    /\ NumberOf(steps, IsCallOnBase) = 2
    /\ NumberOf(steps, IsCitationCall) = 1

---------------------------------------------------------------------------
(* Repeated calls (SpecRepeat) *)

=============================================================================
